---- MODULE Spec2Model ----
(***************************************************************************)
(* Model of pkg/actions/os/os.go of carapace-bin: the completion providers *)
(* that turn operating-system state (environment, /etc/passwd, /etc/group, *)
(* process table, PATH directories, `chsh --list-shells`) into completion  *)
(* candidates.                                                             *)
(*                                                                         *)
(* Text that the code inspects character by character (file contents,      *)
(* environment entries, the token being completed, command output) is a    *)
(* sequence of one-character strings.  Text that is only passed through    *)
(* (table entries, error texts, process names) is a TLA+ string.           *)
(***************************************************************************)
EXTENDS Integers, Sequences, FiniteSets, TLC

VARIABLES
    passwd,     \* /etc/passwd: [readable, content]
    group,      \* /etc/group:  [readable, content]
    environ,    \* what os.Environ() returns: a sequence of entries
    dirs,       \* file system: directory path -> [readable, files]
    procs,      \* what ps.Processes() returns: [err, list]
    chsh,       \* what `chsh --list-shells` does: [err, output]
    call,       \* the last provider invocation: [provider, args, token]
    result      \* what that invocation returned

osvars == <<passwd, group, environ, dirs, procs, chsh>>
vars == <<passwd, group, environ, dirs, procs, chsh, call, result>>

-----------------------------------------------------------------------------
(* Go's strings package, as far as os.go uses it *)

NL == "\n"

\* the characters unicode.IsSpace accepts, among those the model uses
Whitespace == {" ", "\t", "\n", "\r", "\f"}

\* strings.Index(s, sep) for a one-character sep, 1-based; 0 when absent
RECURSIVE IndexFrom(_, _, _)
IndexFrom(s, sep, i) ==
    IF i > Len(s) THEN 0
    ELSE IF s[i] = sep THEN i
    ELSE IndexFrom(s, sep, i + 1)

Index(s, sep) == IndexFrom(s, sep, 1)

\* strings.Split(s, sep) for a one-character sep
RECURSIVE Split(_, _)
Split(s, sep) ==
    LET i == Index(s, sep)
    IN  IF i = 0 THEN <<s>>
        ELSE <<SubSeq(s, 1, i - 1)>> \o Split(SubSeq(s, i + 1, Len(s)), sep)

\* strings.SplitN(s, sep, 2)
SplitN2(s, sep) ==
    LET i == Index(s, sep)
    IN  IF i = 0 THEN <<s>>
        ELSE <<SubSeq(s, 1, i - 1), SubSeq(s, i + 1, Len(s))>>

\* strings.TrimSpace(s)
RECURSIVE TrimLeft(_)
TrimLeft(s) ==
    IF s # <<>> /\ Head(s) \in Whitespace THEN TrimLeft(Tail(s)) ELSE s

RECURSIVE TrimRight(_)
TrimRight(s) ==
    IF s # <<>> /\ s[Len(s)] \in Whitespace
    THEN TrimRight(SubSeq(s, 1, Len(s) - 1))
    ELSE s

TrimSpace(s) == TrimRight(TrimLeft(s))

-----------------------------------------------------------------------------
(* carapace's Action values, as far as os.go builds them *)

NoResult == [kind |-> "none", vals |-> <<>>, msg |-> ""]

\* a panic that leaves the callback (index out of range)
Fault == [kind |-> "fault", vals |-> <<>>, msg |-> ""]

\* carapace.ActionMessage(text)
ActionMessage(text) == [kind |-> "message", vals |-> <<>>, msg |-> text]

\* carapace.ActionValues(values...): value-only candidates, in order
ActionValues(values) ==
    [kind |-> "values",
     vals |-> [i \in 1..Len(values) |->
                  [value |-> values[i], description |-> <<>>]],
     msg  |-> ""]

\* carapace.ActionValuesDescribed(v1, d1, v2, d2, ...)
ActionValuesDescribed(flat) ==
    [kind |-> "values",
     vals |-> [i \in 1..(Len(flat) \div 2) |->
                  [value |-> flat[2 * i - 1], description |-> flat[2 * i]]],
     msg  |-> ""]

\* InvokedAction.Suffix(s): s appended to every value
Suffix(action, s) ==
    [action EXCEPT !.vals =
        [i \in 1..Len(action.vals) |->
            [action.vals[i] EXCEPT !.value = @ \o s]]]

-----------------------------------------------------------------------------
(* ActionUsers / ActionGroups: the colon-delimited database files *)

\* EntryFields with len(user) > 0 in place of len(strings.TrimSpace(user)) > 0
EntryFieldsUntrimmed(entry) ==
    LET splitted == Split(entry, ":")
    IN  IF Len(splitted) > 2
        THEN IF Len(splitted[1]) > 0
             THEN <<splitted[1], splitted[3]>>
             ELSE <<>>
        ELSE <<>>

\* the loop body of ActionUsers and ActionGroups: what one line appends
EntryFields(entry) ==
    LET splitted == Split(entry, ":")
    IN  IF Len(splitted) > 2
        THEN IF Len(TrimSpace(splitted[1])) > 0
             THEN <<splitted[1], splitted[3]>>
             ELSE <<>>
        ELSE <<>>

RECURSIVE ParseEntries(_)
ParseEntries(entries) ==
    IF entries = <<>> THEN <<>>
    ELSE EntryFields(Head(entries)) \o ParseEntries(Tail(entries))

\* the callback of ActionUsers / ActionGroups on the file it reads
ParseDatabase(file) ==
    ActionValuesDescribed(
        IF file.readable THEN ParseEntries(Split(file.content, NL)) ELSE <<>>)

ActionUsers(pw) == ParseDatabase(pw)

ActionGroups(gr) == ParseDatabase(gr)

-----------------------------------------------------------------------------
(* ActionEnvironmentVariables *)

DescLimit == 40

DescKeep == 37

Ellipsis == <<".", ".", ".">>

\* EnvPair without the truncation
EnvPairUntruncated(e) ==
    LET pair == SplitN2(e, "=")
    IN  <<pair[1], pair[2]>>

\* EnvPair with len(pair[1]) >= 40 in place of len(pair[1]) > 40
EnvPairOffByOne(e) ==
    LET pair == SplitN2(e, "=")
    IN  <<pair[1],
          IF Len(pair[2]) >= DescLimit
          THEN SubSeq(pair[2], 1, DescKeep) \o Ellipsis
          ELSE pair[2]>>

\* the loop body of ActionEnvironmentVariables for an entry that has a '=':
\* vars[index*2], vars[index*2+1]
EnvPair(e) ==
    LET pair == SplitN2(e, "=")
    IN  <<pair[1],
          IF Len(pair[2]) > DescLimit
          THEN SubSeq(pair[2], 1, DescKeep) \o Ellipsis
          ELSE pair[2]>>

\* pair[1] of the Go code does not exist: index out of range
EnvPairPanics(e) == Len(SplitN2(e, "=")) < 2

RECURSIVE EnvVars(_)
EnvVars(env) ==
    IF env = <<>> THEN <<>>
    ELSE EnvPair(Head(env)) \o EnvVars(Tail(env))

ActionEnvironmentVariables(env) ==
    IF \E i \in 1..Len(env) : EnvPairPanics(env[i])
    THEN Fault
    ELSE ActionValuesDescribed(EnvVars(env))

-----------------------------------------------------------------------------
(* ActionKillSignals / ActionProcessStates: the static tables *)

ActionKillSignals ==
    ActionValuesDescribed(<<
        "ABRT", "Abnormal termination",
        "ALRM", "Virtual alarm clock",
        "BUS", "BUS error",
        "CHLD", "Child status has changed",
        "CONT", "Continue stopped process",
        "FPE", "Floating-point exception",
        "HUP", "Hangup detected on controlling terminal",
        "ILL", "Illegal instruction",
        "INT", "Interrupt from keyboard",
        "KILL", "Kill, unblockable",
        "PIPE", "Broken pipe",
        "POLL", "Pollable event occurred",
        "PROF", "Profiling alarm clock timer expired",
        "PWR", "Power failure restart",
        "QUIT", "Quit from keyboard",
        "SEGV", "Segmentation violation",
        "STKFLT", "Stack fault on coprocessor",
        "STOP", "Stop process, unblockable",
        "SYS", "Bad system call",
        "TERM", "Termination request",
        "TRAP", "Trace/breakpoint trap",
        "TSTP", "Stop typed at keyboard",
        "TTIN", "Background read from tty",
        "TTOU", "Background write to tty",
        "URG", "Urgent condition on socket",
        "USR1", "User-defined signal 1",
        "USR2", "User-defined signal 2",
        "VTALRM", "Virtual alarm clock",
        "WINCH", "Window size change",
        "XCPU", "CPU time limit exceeded",
        "XFSZ", "File size limit exceeded">>)

\* ActionProcessStates with the entry for "W" left out
ActionProcessStatesShort ==
    ActionValuesDescribed(<<
        "D", "uninterruptible sleep (usually IO)",
        "I", "Idle kernel thread",
        "R", "running or runnable (on run queue)",
        "S", "interruptible sleep (waiting for an event to complete)",
        "T", "stopped by job control signal",
        "X", "dead (should never be seen)",
        "Z", "defunct (zombie) process, terminated but not reaped by its parent",
        "t", "stopped by debugger during the tracing">>)

ActionProcessStates ==
    ActionValuesDescribed(<<
        "D", "uninterruptible sleep (usually IO)",
        "I", "Idle kernel thread",
        "R", "running or runnable (on run queue)",
        "S", "interruptible sleep (waiting for an event to complete)",
        "T", "stopped by job control signal",
        "W", "paging (not valid since the 2.6.xx kernel)",
        "X", "dead (should never be seen)",
        "Z", "defunct (zombie) process, terminated but not reaped by its parent",
        "t", "stopped by debugger during the tracing">>)

-----------------------------------------------------------------------------
(* ActionProcessExecutables *)

Digits == <<"0", "1", "2", "3", "4", "5", "6", "7", "8", "9">>

\* strconv.Itoa(n) for n >= 0
RECURSIVE Itoa(_)
Itoa(n) ==
    IF n < 10 THEN <<Digits[n + 1]>>
    ELSE Itoa(n \div 10) \o <<Digits[(n % 10) + 1]>>

RECURSIVE Executables(_)
Executables(processes) ==
    IF processes = <<>> THEN <<>>
    ELSE <<Head(processes).executable, Itoa(Head(processes).pid)>>
            \o Executables(Tail(processes))

\* ActionProcessExecutables with the error dropped, as ActionUsers drops it
ActionProcessExecutablesSilent(pt) ==
    ActionValuesDescribed(IF pt.err # "" THEN <<>> ELSE Executables(pt.list))

\* pt.err = "" stands for err == nil
ActionProcessExecutables(pt) ==
    IF pt.err # ""
    THEN ActionMessage(pt.err)
    ELSE ActionValuesDescribed(Executables(pt.list))

-----------------------------------------------------------------------------
(* ActionUserGroup *)

\* carapace.ActionMultiParts(":", ...): the segments of the token being
\* completed that are already closed by a divider
Parts(token) ==
    LET splitted == Split(token, ":")
    IN  SubSeq(splitted, 1, Len(splitted) - 1)

\* ActionUserGroup without .Suffix(":")
ActionUserGroupNoSuffix(token, pw, gr) ==
    LET parts == Parts(token)
    IN  CASE Len(parts) = 0 -> ActionUsers(pw)
          [] Len(parts) = 1 -> ActionGroups(gr)
          [] OTHER          -> ActionValues(<<>>)

ActionUserGroup(token, pw, gr) ==
    LET parts == Parts(token)
    IN  CASE Len(parts) = 0 -> Suffix(ActionUsers(pw), <<":">>)
          [] Len(parts) = 1 -> ActionGroups(gr)
          [] OTHER          -> ActionValues(<<>>)

-----------------------------------------------------------------------------
(* ActionShells *)

\* sh.err = "" stands for err == nil
ActionShells(sh) ==
    IF sh.err # ""
    THEN ActionMessage(sh.err)
    ELSE ActionValues(Split(sh.output, NL))

-----------------------------------------------------------------------------
(* ActionPathExecutables *)

\* 0111 (octal)
ExecBits == 73

RECURSIVE BitAnd(_, _)
BitAnd(a, b) ==
    IF a = 0 \/ b = 0 THEN 0
    ELSE (a % 2) * (b % 2) + 2 * BitAnd(a \div 2, b \div 2)

\* isExecAny with mode&0100: the owner's execute bit alone
isExecOwner(perm) == BitAnd(perm, 64) # 0

isExecAny(perm) == BitAnd(perm, ExecBits) # 0

PATH == <<"P", "A", "T", "H">>

\* os.Getenv(key): the value of the first entry key=value, "" when none
RECURSIVE Getenv(_, _)
Getenv(env, key) ==
    IF env = <<>> THEN <<>>
    ELSE LET pair == SplitN2(Head(env), "=")
         IN  IF Len(pair) = 2 /\ pair[1] = key THEN pair[2]
             ELSE Getenv(Tail(env), key)

\* ioutil.ReadDir(folder) succeeds
ReadDirOk(fs, folder) == folder \in DOMAIN fs /\ fs[folder].readable

\* the names one folder adds to the executables map
FolderExecutables(fs, folder) ==
    IF ReadDirOk(fs, folder)
    THEN {f.name : f \in {g \in fs[folder].files : g.regular /\ isExecAny(g.perm)}}
    ELSE {}

\* the keys of the executables map after the loop over PATH
ExecutablesMap(env, fs) ==
    LET folders == Split(Getenv(env, PATH), ":")
    IN  UNION {FolderExecutables(fs, folders[i]) : i \in 1..Len(folders)}

\* every sequence that lists each element of S once: Go iterates a map in
\* an unspecified order
Orderings(S) ==
    {p \in [1..Cardinality(S) -> S] : \A x \in S : \E i \in DOMAIN p : p[i] = x}

\* the results ActionPathExecutables can return
PathExecutablesOutcomes(env, fs) ==
    {ActionValues(vals) : vals \in Orderings(ExecutablesMap(env, fs))}

-----------------------------------------------------------------------------
(* The inputs: the operating-system states the providers are run on *)

\* bounds of the enumerated inputs
MaxLines == 2

MaxEnv == 2

MaxValLen == 41

MaxPath == 2

Rep(c, n) == [i \in 1..n |-> c]

SeqsUpTo(S, n) == UNION {[1..k -> S] : k \in 0..n}

\* strings.Join(parts, sep) for a one-character sep
RECURSIVE Join(_, _)
Join(parts, sep) ==
    IF parts = <<>> THEN <<>>
    ELSE IF Len(parts) = 1 THEN parts[1]
    ELSE parts[1] \o <<sep>> \o Join(Tail(parts), sep)

ArgLists == {<<>>, <<"x">>}

\* lines of a database file
DbLines == {
    <<"a", ":", "x", ":", "1">>,
    <<"b", "b", ":", "x", ":", "2", ":", "3", ":", "4">>,
    <<"c", ":", "x">>,
    <<" ", ":", "x", ":", "5">>,
    <<":", "x", ":", "6">>,
    <<" ", "e", ":", "x", ":", "7">>,
    <<>> }

\* root:x:0:0:root:/root:/bin/bash\nbin:x:1:1:bin:/bin:/sbin/nologin\n
ExampleDb ==
    <<"r", "o", "o", "t", ":", "x", ":", "0", ":", "0", ":", "r", "o", "o", "t",
      ":", "/", "r", "o", "o", "t", ":", "/", "b", "i", "n", "/", "b", "a", "s", "h",
      NL,
      "b", "i", "n", ":", "x", ":", "1", ":", "1", ":", "b", "i", "n", ":",
      "/", "b", "i", "n", ":", "/", "s", "b", "i", "n", "/", "n", "o", "l", "o", "g", "i", "n",
      NL>>

\* a content that ends with a newline is one whose last line is empty
DbContents == {Join(ls, NL) : ls \in SeqsUpTo(DbLines, MaxLines)} \cup {ExampleDb}

Unreadable(content) == [readable |-> FALSE, content |-> content]

Readable(content) == [readable |-> TRUE, content |-> content]

DbFiles ==
    {Readable(c) : c \in DbContents} \cup {Unreadable(<<>>), Unreadable(ExampleDb)}

\* g:x:9\n :x:5
GroupDb == <<"g", ":", "x", ":", "9", NL, " ", ":", "x", ":", "5">>

DbSamples == {Readable(ExampleDb), Unreadable(ExampleDb), Readable(GroupDb)}

\* the token being completed by ActionUserGroup (carapace.CallbackValue)
Tokens == {
    <<>>,
    <<"b">>,
    <<"b", ":">>,
    <<"b", ":", "g">>,
    <<"b", ":", "g", ":">>,
    <<":", ":", ":">> }

\* environment entries
LongName == Rep("N", DescLimit + 1)

ValLens == {0, 2} \cup ((DescLimit - 1)..MaxValLen)

EnvValues ==
    {Rep("v", n) : n \in ValLens}
        \cup {<<"v", "=">> \o Rep("w", n - 2) : n \in ValLens \ {0}}

EnvEntries ==
    {<<"A", "=">> \o v : v \in EnvValues}
        \cup {LongName \o <<"=">> \o Rep("v", n) : n \in {0, DescLimit}}
        \cup {<<"B">>}

Environments == SeqsUpTo(EnvEntries, MaxEnv)

\* directories and PATH values
DirA == <<"/", "a">>

DirB == <<"/", "b">>

DirMissing == <<"/", "x">>

File(name, regular, perm) == [name |-> name, regular |-> regular, perm |-> perm]

\* one name of a directory: absent, or one entry (0755, 0644, 0010 regular
\* files, a 0755 directory, a 0777 symbolic link)
EntriesNamed(name) ==
    {{}} \cup {{File(name, TRUE, 493)}, {File(name, TRUE, 420)},
               {File(name, TRUE, 8)}, {File(name, FALSE, 493)},
               {File(name, FALSE, 511)}}

DirAStates ==
    {[readable |-> r, files |-> ls \cup sh] :
        r \in BOOLEAN, ls \in EntriesNamed("ls"), sh \in EntriesNamed("sh")}

DirBStates ==
    {[readable |-> TRUE, files |-> ls \cup vi] :
        ls \in {{}, {File("ls", TRUE, 493)}},
        vi \in {{}, {File("vi", TRUE, 73)}}}

FileSystems == {(DirA :> a) @@ (DirB :> b) : a \in DirAStates, b \in DirBStates}

PathValues == {Join(fs, ":") : fs \in SeqsUpTo({DirA, DirB, DirMissing, <<>>}, MaxPath)}

PathEnvironments ==
    {<<PATH \o <<"=">> \o v>> : v \in PathValues}
        \cup {<<>>, <<PATH>>,
              <<<<"A", "=", "/", "a">>, PATH \o <<"=">> \o DirB>>,
              <<PATH \o <<"=">> \o DirB, PATH \o <<"=">> \o DirA>>}

\* process tables
Proc(executable, pid) == [executable |-> executable, pid |-> pid]

ProcessTables == {
    [err |-> "open /proc: permission denied", list |-> <<>>],
    [err |-> "", list |-> <<Proc("init", 1)>>],
    [err |-> "", list |-> <<Proc("NetworkManager", 439), Proc("cupsd", 454)>>] }

\* `chsh --list-shells`
Bash == <<"/", "b", "i", "n", "/", "b", "a", "s", "h">>

Zsh == <<"/", "b", "i", "n", "/", "z", "s", "h">>

ChshStates == {
    [err |-> "exec: \"chsh\": executable file not found in $PATH", output |-> <<>>],
    [err |-> "exit status 1", output |-> Bash \o <<NL>>],
    [err |-> "", output |-> <<>>],
    [err |-> "", output |-> Bash \o <<NL>> \o Zsh],
    [err |-> "", output |-> Bash \o <<NL>> \o Zsh \o <<NL>>],
    [err |-> "", output |-> Bash \o <<NL, NL>> \o Zsh \o <<NL>>] }

-----------------------------------------------------------------------------
(* The state machine: the framework invokes a provider; the operating      *)
(* system changes between invocations                                      *)

NoCall == [provider |-> "none", args |-> <<>>, token |-> <<>>, tick |-> 0]

\* one invocation: the provider's callback runs to its end and returns res.
\* tick is the parity of the number of invocations so far.
Invoke(provider, args, token, res) ==
    /\ call' = [provider |-> provider, args |-> args, token |-> token,
                tick |-> 1 - call.tick]
    /\ result' = res
    /\ UNCHANGED osvars

InvokeEnvironmentVariables ==
    \E args \in ArgLists :
        Invoke("EnvironmentVariables", args, <<>>, ActionEnvironmentVariables(environ))

InvokeGroups ==
    \E args \in ArgLists : Invoke("Groups", args, <<>>, ActionGroups(group))

InvokeKillSignals ==
    \E args \in ArgLists : Invoke("KillSignals", args, <<>>, ActionKillSignals)

InvokeProcessExecutables ==
    \E args \in ArgLists :
        Invoke("ProcessExecutables", args, <<>>, ActionProcessExecutables(procs))

InvokeProcessStates ==
    \E args \in ArgLists : Invoke("ProcessStates", args, <<>>, ActionProcessStates)

\* InvokeUsers with the previous result kept instead of reading /etc/passwd
\* again
InvokeUsersCached ==
    \E args \in ArgLists :
        Invoke("Users", args, <<>>,
               IF call.provider = "Users" THEN result ELSE ActionUsers(passwd))

InvokeUsers ==
    \E args \in ArgLists : Invoke("Users", args, <<>>, ActionUsers(passwd))

InvokeUserGroup ==
    \E args \in ArgLists, token \in Tokens :
        Invoke("UserGroup", args, token, ActionUserGroup(token, passwd, group))

InvokeShells ==
    \E args \in ArgLists : Invoke("Shells", args, <<>>, ActionShells(chsh))

InvokePathExecutables ==
    \E args \in ArgLists, res \in PathExecutablesOutcomes(environ, dirs) :
        Invoke("PathExecutables", args, <<>>, res)

\* the operating-system states the full specification moves between
EnvSamples == {
    <<<<"A", "=", "v">>, PATH \o <<"=">> \o DirA \o <<":">> \o DirB>>,
    <<<<"A", "=">> \o Rep("v", DescLimit + 1)>>,
    <<<<"B">>>> }

FsSamples == {
    (DirA :> [readable |-> TRUE,
              files |-> {File("ls", TRUE, 493), File("sh", TRUE, 420)}])
        @@ (DirB :> [readable |-> TRUE, files |-> {File("vi", TRUE, 73)}]),
    (DirA :> [readable |-> FALSE, files |-> {File("ls", TRUE, 493)}])
        @@ (DirB :> [readable |-> TRUE, files |-> {File("ls", FALSE, 493)}]) }

ProcSamples == {p \in ProcessTables : Len(p.list) < 2}

ChshSamples ==
    {c \in ChshStates : c.output \in {<<>>, Bash \o <<NL>> \o Zsh \o <<NL>>}}

GroupSamples == {f \in DbSamples : f.content # ExampleDb \/ ~f.readable}

ChangePasswd ==
    /\ \E f \in DbSamples : passwd' = f
    /\ UNCHANGED <<group, environ, dirs, procs, chsh, call, result>>

ChangeGroup ==
    /\ \E f \in GroupSamples : group' = f
    /\ UNCHANGED <<passwd, environ, dirs, procs, chsh, call, result>>

ChangeEnviron ==
    /\ \E e \in EnvSamples : environ' = e
    /\ UNCHANGED <<passwd, group, dirs, procs, chsh, call, result>>

ChangeDirs ==
    /\ \E fs \in FsSamples : dirs' = fs
    /\ UNCHANGED <<passwd, group, environ, procs, chsh, call, result>>

ChangeProcs ==
    /\ \E pt \in ProcSamples : procs' = pt
    /\ UNCHANGED <<passwd, group, environ, dirs, chsh, call, result>>

ChangeChsh ==
    /\ \E sh \in ChshSamples : chsh' = sh
    /\ UNCHANGED <<passwd, group, environ, dirs, procs, call, result>>

NotInvoked == call = NoCall /\ result = NoResult

\* the machine the program is started on
Init ==
    /\ passwd = Readable(ExampleDb)
    /\ group = Readable(GroupDb)
    /\ environ = <<<<"A", "=", "v">>, PATH \o <<"=">> \o DirA \o <<":">> \o DirB>>
    /\ dirs \in {fs \in FsSamples : fs[DirA].readable}
    /\ procs \in {pt \in ProcSamples : pt.err = ""}
    /\ chsh \in {sh \in ChshSamples : sh.err = "" /\ sh.output # <<>>}
    /\ NotInvoked

Next ==
    \/ InvokeEnvironmentVariables
    \/ InvokeGroups
    \/ InvokeKillSignals
    \/ InvokeProcessExecutables
    \/ InvokeProcessStates
    \/ InvokeUsers
    \/ InvokeUserGroup
    \/ InvokeShells
    \/ InvokePathExecutables
    \/ ChangePasswd
    \/ ChangeGroup
    \/ ChangeEnviron
    \/ ChangeDirs
    \/ ChangeProcs
    \/ ChangeChsh

Spec == Init /\ [][Next]_vars

\* the database providers on every bounded database file
InitDatabase ==
    /\ \/ passwd \in DbFiles /\ group \in DbSamples
       \/ passwd \in DbSamples /\ group \in DbFiles
    /\ environ = <<>>
    /\ dirs = <<>>
    /\ procs \in {pt \in ProcessTables : Len(pt.list) = 1}
    /\ chsh \in {sh \in ChshStates : sh.err = "" /\ sh.output = <<>>}
    /\ NotInvoked

NextDatabase ==
    \/ InvokeUsers
    \/ InvokeGroups
    \/ InvokeUserGroup

SpecDatabase == InitDatabase /\ [][NextDatabase]_vars

\* the providers that carry descriptions, on every bounded environment
InitEnv ==
    /\ passwd \in {f \in DbSamples : f.readable /\ f.content = ExampleDb}
    /\ group \in {f \in DbSamples : f.readable /\ f.content = ExampleDb}
    /\ environ \in Environments
    /\ dirs = <<>>
    /\ procs \in {pt \in ProcessTables : Len(pt.list) = 2}
    /\ chsh \in {sh \in ChshStates : sh.err = "" /\ sh.output = <<>>}
    /\ NotInvoked

NextEnv ==
    \/ InvokeEnvironmentVariables
    \/ InvokeKillSignals
    \/ InvokeProcessStates

SpecEnv == InitEnv /\ [][NextEnv]_vars

\* the PATH scan on every bounded PATH and directory contents
InitPath ==
    /\ passwd \in {f \in DbSamples : f.readable /\ f.content = ExampleDb}
    /\ group \in {f \in DbSamples : f.readable /\ f.content = ExampleDb}
    /\ environ \in PathEnvironments
    /\ dirs \in FileSystems
    /\ procs \in {pt \in ProcessTables : Len(pt.list) = 1}
    /\ chsh \in {sh \in ChshStates : sh.err = "" /\ sh.output = <<>>}
    /\ NotInvoked

NextPath == InvokePathExecutables

SpecPath == InitPath /\ [][NextPath]_vars

\* the providers that can fail, on every way their source can fail
InitFailure ==
    /\ passwd \in DbSamples
    /\ group \in DbSamples
    /\ environ = <<>>
    /\ dirs = <<>>
    /\ procs \in ProcessTables
    /\ chsh \in ChshStates
    /\ NotInvoked

NextFailure ==
    \/ InvokeUsers
    \/ InvokeGroups
    \/ InvokeProcessExecutables
    \/ InvokeShells

SpecFailure == InitFailure /\ [][NextFailure]_vars

-----------------------------------------------------------------------------
(* Helpers of the properties: the claims' own words, not the code's loops *)

CountChar(s, c) == Cardinality({i \in 1..Len(s) : s[i] = c})

\* the position of the first c in s (s contains c)
FirstPos(s, c) == CHOOSE i \in 1..Len(s) : s[i] = c /\ \A j \in 1..(i - 1) : s[j] # c

Before(s, c) == SubSeq(s, 1, FirstPos(s, c) - 1)

After(s, c) == SubSeq(s, FirstPos(s, c) + 1, Len(s))

Has(s, c) == \E i \in 1..Len(s) : s[i] = c

EndsWithEllipsis(s) ==
    Len(s) >= 3 /\ s[Len(s) - 2] = "." /\ s[Len(s) - 1] = "." /\ s[Len(s)] = "."

Values(res) == [i \in 1..Len(res.vals) |-> res.vals[i].value]

Called(provider) == call.provider = provider

-----------------------------------------------------------------------------
(* C1 *)

\* C1: ActionUserGroup on a token with no colon returns the users'
\* candidates, each value suffixed with ":"; on a token with one colon the
\* groups' candidates unmodified; on a token with two or more colons the
\* empty candidate set.
UserGroupDispatch ==
    Called("UserGroup") =>
        LET n  == CountChar(call.token, ":")
            P0 == ActionUsers(passwd)
            P1 == ActionGroups(group)
        IN  /\ n = 0 =>
                /\ result.kind = "values"
                /\ Len(result.vals) = Len(P0.vals)
                /\ \A i \in 1..Len(P0.vals) :
                      /\ result.vals[i].value = P0.vals[i].value \o <<":">>
                      /\ result.vals[i].description = P0.vals[i].description
            /\ n = 1 => result = P1
            /\ n >= 2 => result.kind = "values" /\ result.vals = <<>>

\* a token without colon was completed to root: and bin:
UserGroupDispatchWitness ==
    /\ Called("UserGroup")
    /\ CountChar(call.token, ":") = 0
    /\ Values(result) = <<<<"r", "o", "o", "t", ":">>, <<"b", "i", "n", ":">>>>

-----------------------------------------------------------------------------
(* C2 *)

\* a line that has more than 2 colon-separated fields and a name that is
\* not all whitespace
IsRecord(line) ==
    /\ CountChar(line, ":") >= 2
    /\ \E i \in 1..Len(Before(line, ":")) : Before(line, ":")[i] \notin Whitespace

RecordCandidate(line) ==
    [value |-> Before(line, ":"),
     description |-> LET rest == After(After(line, ":"), ":")
                     IN  IF Has(rest, ":") THEN Before(rest, ":") ELSE rest]

RecordsOf(content) ==
    LET records == SelectSeq(Split(content, NL), IsRecord)
    IN  [i \in 1..Len(records) |-> RecordCandidate(records[i])]

\* C2: the users (groups) provider emits, in file order, exactly one
\* candidate (field 0, field 2) for each line of the readable database file
\* that has more than 2 fields and a name that is not all whitespace, and
\* nothing for any other line; the example file yields (root, 0), (bin, 1).
DatabaseRecords ==
    /\ Called("Users") /\ passwd.readable =>
          /\ result.kind = "values"
          /\ result.vals = RecordsOf(passwd.content)
    /\ Called("Groups") /\ group.readable =>
          /\ result.kind = "values"
          /\ result.vals = RecordsOf(group.content)
    /\ Called("Users") /\ passwd = Readable(ExampleDb) =>
          result.vals =
              <<[value |-> <<"r", "o", "o", "t">>, description |-> <<"0">>],
                [value |-> <<"b", "i", "n">>, description |-> <<"1">>]>>

\* a file with a 5-field record and a record whose name is blank: one
\* candidate
DatabaseRecordsWitness ==
    /\ Called("Users")
    /\ passwd.readable
    /\ passwd.content =
          <<" ", ":", "x", ":", "5", NL,
            "b", "b", ":", "x", ":", "2", ":", "3", ":", "4">>
    /\ result.vals = <<[value |-> <<"b", "b">>, description |-> <<"2">>]>>

-----------------------------------------------------------------------------
(* C3 *)

\* C3 as stated: the kill-signal table has exactly 30 entries and the
\* process-state table exactly 9, whatever the arguments and the OS state.
TablesThirtyAndNine ==
    /\ Called("KillSignals") => result.kind = "values" /\ Len(result.vals) = 30
    /\ Called("ProcessStates") => result.kind = "values" /\ Len(result.vals) = 9

\* C3 amended: the kill-signal table has exactly 31 entries (ABRT first,
\* XFSZ last) and the process-state table exactly 9 (D first, t last), with
\* distinct values, whatever the arguments and the OS state.
TablesFixed ==
    /\ Called("KillSignals") =>
          /\ result.kind = "values"
          /\ Len(result.vals) = 31
          /\ result.vals[1] = [value |-> "ABRT", description |-> "Abnormal termination"]
          /\ result.vals[31] = [value |-> "XFSZ", description |-> "File size limit exceeded"]
          /\ Cardinality({result.vals[i].value : i \in 1..31}) = 31
    /\ Called("ProcessStates") =>
          /\ result.kind = "values"
          /\ Len(result.vals) = 9
          /\ result.vals[1].value = "D"
          /\ result.vals[9].value = "t"
          /\ Cardinality({result.vals[i].value : i \in 1..9}) = 9

\* the tables were returned with arguments, on a machine whose user
\* database cannot be read
TablesFixedWitness ==
    /\ call.provider \in {"KillSignals", "ProcessStates"}
    /\ call.args # <<>>
    /\ ~passwd.readable
    /\ Len(result.vals) \in {9, 31}

-----------------------------------------------------------------------------
(* C4 *)

NonEmpty(line) == line # <<>>

\* C4: when the shell-listing command succeeds, the shells provider emits
\* the non-empty lines of its output, and only those, as value-only
\* candidates in output order.
ShellsNonEmptyLines ==
    Called("Shells") /\ chsh.err = "" =>
        /\ result.kind = "values"
        /\ Values(result) = SelectSeq(Split(chsh.output, NL), NonEmpty)
        /\ \A i \in 1..Len(result.vals) : result.vals[i].description = <<>>

-----------------------------------------------------------------------------
(* C5 *)

\* C5: the environment-variables provider returns a candidate set or a
\* Message, never a fault, whatever the arguments and the environment.
EnvNeverFaults ==
    Called("EnvironmentVariables") => result.kind \in {"values", "message"}

-----------------------------------------------------------------------------
(* C6 *)

\* C6: an unreadable user or group database gives the empty candidate set
\* and no Message; a failed process-table query or shell-listing command
\* gives a Message carrying the error text and no candidate set.
FailureKinds ==
    /\ Called("Users") /\ ~passwd.readable =>
          result.kind = "values" /\ result.vals = <<>> /\ result.msg = ""
    /\ Called("Groups") /\ ~group.readable =>
          result.kind = "values" /\ result.vals = <<>> /\ result.msg = ""
    /\ Called("ProcessExecutables") /\ procs.err # "" =>
          result.kind = "message" /\ result.msg = procs.err
    /\ Called("Shells") /\ chsh.err # "" =>
          result.kind = "message" /\ result.msg = chsh.err

\* the process-table query failed and its error text is the Message
FailureKindsWitness ==
    /\ Called("ProcessExecutables")
    /\ procs.err = "open /proc: permission denied"
    /\ result = ActionMessage("open /proc: permission denied")

-----------------------------------------------------------------------------
(* C7 *)

\* C7 as stated: every candidate emitted by any provider has a description
\* of at most 40 characters.
AllDescriptionsShort ==
    result.kind = "values" =>
        \A i \in 1..Len(result.vals) : Len(result.vals[i].description) <= 40

\* C7 amended: every candidate emitted by the environment-variables provider
\* has a description of at most 40 characters, and one whose source is
\* longer ends with the ellipsis; the other providers do not truncate: the
\* process-state table carries descriptions of 54 and 65 characters.
EnvDescriptionsShort ==
    /\ Called("EnvironmentVariables") /\ result.kind = "values" =>
          \A i \in 1..Len(result.vals) :
              /\ Len(result.vals[i].description) <= 40
              /\ Len(After(environ[i], "=")) > 40 =>
                    EndsWithEllipsis(result.vals[i].description)
    /\ Called("ProcessStates") =>
          /\ Len(result.vals[4].description) = 54
          /\ Len(result.vals[8].description) = 65

\* a value of 41 characters was cut to 40 ending with the ellipsis
EnvDescriptionsShortWitness ==
    /\ Called("EnvironmentVariables")
    /\ Len(environ) = 1
    /\ Has(environ[1], "=")
    /\ Len(After(environ[1], "=")) = 41
    /\ Len(result.vals) = 1
    /\ Len(result.vals[1].description) = 40
    /\ EndsWithEllipsis(result.vals[1].description)

-----------------------------------------------------------------------------
(* C8 *)

\* the description the claim gives for the text after the first '='
Truncated(text) ==
    IF Len(text) <= 40 THEN text
    ELSE [j \in 1..40 |-> IF j <= 37 THEN text[j] ELSE "."]

\* C8: on an environment whose entries all have the form name=value, the
\* environment-variables provider emits one candidate per entry, in order:
\* the value is the text before the first '=', the description the text
\* after it, unchanged up to 40 characters and otherwise its first 37
\* characters followed by "...".
EnvCandidates ==
    Called("EnvironmentVariables") /\ (\A i \in 1..Len(environ) : Has(environ[i], "=")) =>
        /\ result.kind = "values"
        /\ Len(result.vals) = Len(environ)
        /\ \A i \in 1..Len(environ) :
              /\ result.vals[i].value = Before(environ[i], "=")
              /\ result.vals[i].description = Truncated(After(environ[i], "="))

\* two entries: a name of 41 characters kept whole with a value of exactly
\* 40 characters kept whole, then a 41-character value with a second '=' cut
EnvCandidatesWitness ==
    /\ Called("EnvironmentVariables")
    /\ Len(environ) = 2
    /\ Len(result.vals) = 2
    /\ Len(result.vals[1].value) = 41
    /\ Len(result.vals[1].description) = 40
    /\ ~EndsWithEllipsis(result.vals[1].description)
    /\ Len(After(environ[2], "=")) = 41
    /\ Has(result.vals[2].description, "=")
    /\ EndsWithEllipsis(result.vals[2].description)

-----------------------------------------------------------------------------
(* C9 *)

\* the directories PATH lists
Listed == LET folders == Split(Getenv(environ, PATH), ":")
          IN  {folders[i] : i \in 1..Len(folders)}

OwnerExec(perm) == (perm \div 64) % 2 = 1

GroupExec(perm) == (perm \div 8) % 2 = 1

OtherExec(perm) == perm % 2 = 1

\* some readable listed directory holds name as a regular file with an
\* execute bit
OnPath(name) ==
    \E d \in Listed \cap DOMAIN dirs :
        /\ dirs[d].readable
        /\ \E f \in dirs[d].files :
              /\ f.name = name
              /\ f.regular
              /\ OwnerExec(f.perm) \/ GroupExec(f.perm) \/ OtherExec(f.perm)

Occurrences(res, name) == Cardinality({i \in 1..Len(res.vals) : res.vals[i].value = name})

FileNames == {"ls", "sh", "vi"}

\* C9: the PATH scan always succeeds and returns a name exactly once if
\* some readable directory listed in PATH holds it as a regular file with
\* an execute bit, and not at all otherwise.
PathScan ==
    Called("PathExecutables") =>
        /\ result.kind = "values"
        /\ \A i \in 1..Len(result.vals) : result.vals[i].value \in FileNames
        /\ \A name \in FileNames :
              Occurrences(result, name) = IF OnPath(name) THEN 1 ELSE 0

\* PATH lists both directories, both hold an executable ls, and ls was
\* returned once beside vi
PathScanWitness ==
    /\ Called("PathExecutables")
    /\ Listed = {DirA, DirB}
    /\ \A d \in Listed : \E f \in dirs[d].files :
          f.name = "ls" /\ f.regular /\ f.perm = 493
    /\ dirs[DirA].readable
    /\ Len(result.vals) = 2
    /\ Occurrences(result, "ls") = 1
    /\ Occurrences(result, "vi") = 1

-----------------------------------------------------------------------------
(* C10 *)

\* what an invocation can return on the present operating-system state
Outcomes(c) ==
    CASE c.provider = "EnvironmentVariables" -> {ActionEnvironmentVariables(environ)}
      [] c.provider = "Groups"               -> {ActionGroups(group)}
      [] c.provider = "KillSignals"          -> {ActionKillSignals}
      [] c.provider = "ProcessExecutables"   -> {ActionProcessExecutables(procs)}
      [] c.provider = "ProcessStates"        -> {ActionProcessStates}
      [] c.provider = "Users"                -> {ActionUsers(passwd)}
      [] c.provider = "UserGroup"            -> {ActionUserGroup(c.token, passwd, group)}
      [] c.provider = "Shells"               -> {ActionShells(chsh)}
      [] c.provider = "PathExecutables"      -> PathExecutablesOutcomes(environ, dirs)
      [] OTHER                               -> {}

\* C10: a step is either a change of the operating system, which leaves the
\* last result alone, or an invocation, which leaves the operating system
\* alone and returns what the provider yields on the operating-system state
\* of that moment, whatever was returned before.
InvocationsAreFresh ==
    [][\/ UNCHANGED <<call, result>>
       \/ /\ UNCHANGED osvars
          /\ result' \in Outcomes(call')]_vars

\* a second or later invocation of the users provider, after /etc/passwd
\* became unreadable, returned the empty set
InvocationsAreFreshWitness ==
    /\ Called("Users")
    /\ call.tick = 0
    /\ ~passwd.readable
    /\ result.kind = "values"
    /\ result.vals = <<>>

====
